---- MODULE Spec2Model ----
(***************************************************************************)
(* A model of the BTC ETL pipeline (src/btc_etl.py, src/utils.py): the     *)
(* batch scan, the live watcher, the worker pools, the Redis ledger of     *)
(* processed files and the table keyed by date_time.                       *)
(***************************************************************************)
EXTENDS Integers, Sequences, FiniteSets, Bags, TLC

\* ------------------------------------------------------------------ bounds
\* Number of files of the data directory's universe: file f is the validly
\* named file dated f.
NumFiles == 2
\* Creation events the observer delivers during one run of the process.
MaxEvents == 2
\* Worker count of a pool (MAX_THREADS of the environment).
MAX_THREADS == 2

\* The files with a valid name, btcusd-2023-10-0f.csv for f in Files, and the
\* other entries a directory may hold.
Files == 1..NumFiles
WrongPrefix == 11
CopyCsv == 12
NotCsv == 13
OddEntries == {WrongPrefix, CopyCsv, NotCsv}
Entries == Files \cup OddEntries

\* Threads: the main thread, the observer's event-dispatch thread, and the
\* worker threads of the scan's pool and of the handler's pool; NoThread marks
\* a unit that is not on a thread.
MainThread == 0
ObserverThread == -1
NoThread == -2
ScanWorkers == 1..MAX_THREADS
WatchWorkers == (MAX_THREADS + 1)..(2 * MAX_THREADS)
Workers == ScanWorkers \cup WatchWorkers
Threads == {MainThread, ObserverThread} \cup Workers

\* ---------------------------------------------------------- filename codec
\* A name is the sequence of its characters.
Digits == <<"0", "1", "2", "3", "4", "5", "6", "7", "8", "9">>
IsDigit(c) == \E k \in 1..10 : Digits[k] = c
DigitVal(c) == (CHOOSE k \in 1..10 : Digits[k] = c) - 1
RECURSIVE Num(_)
Num(s) == IF s = <<>> THEN 0
          ELSE 10 * Num(SubSeq(s, 1, Len(s) - 1)) + DigitVal(s[Len(s)])
AllDigits(s) == \A k \in 1..Len(s) : IsDigit(s[k])

\* Python's s[a:b]: the characters at the 0-based positions a..b-1 that exist.
Slice(s, a, b) ==
    IF a >= Len(s) THEN <<>> ELSE SubSeq(s, a + 1, IF b < Len(s) THEN b ELSE Len(s))
EndsWith(s, suffix) ==
    /\ Len(s) >= Len(suffix)
    /\ SubSeq(s, Len(s) - Len(suffix) + 1, Len(s)) = suffix

\* The directives of datetime.strptime: %m is 1[0-2]|0[1-9]|[1-9] and %d is
\* 3[01]|[12]\d|0[1-9]|[1-9]| [1-9]; %Y is four digits.
MonthForm(s) ==
    /\ AllDigits(s)
    /\ IF Len(s) = 1 THEN Num(s) \in 1..9 ELSE Num(s) \in 1..12
DayText(s) == IF s[1] = " " THEN SubSeq(s, 2, Len(s)) ELSE s
DayForm(s) ==
    /\ AllDigits(DayText(s))
    /\ IF Len(DayText(s)) = 1 THEN Num(DayText(s)) \in 1..9 ELSE Num(DayText(s)) \in 1..31
IsLeap(y) == (y % 4 = 0 /\ y % 100 # 0) \/ y % 400 = 0
DaysIn(y, m) ==
    IF m = 2 THEN (IF IsLeap(y) THEN 29 ELSE 28)
    ELSE IF m \in {4, 6, 9, 11} THEN 30 ELSE 31

\* The ways s splits into year-month-day under "%Y-%m-%d": the lengths of the
\* month and of the day.
DateSplits(s) ==
    {sp \in {1, 2} \X {1, 2} :
        /\ Len(s) = 6 + sp[1] + sp[2]
        /\ AllDigits(SubSeq(s, 1, 4))
        /\ s[5] = "-"
        /\ MonthForm(SubSeq(s, 6, 5 + sp[1]))
        /\ s[6 + sp[1]] = "-"
        /\ DayForm(SubSeq(s, 7 + sp[1], 6 + sp[1] + sp[2]))}

NoDate == <<0, 0, 0>>
\* datetime.strptime(s, "%Y-%m-%d"): the date, or ValueError (raised).
StrptimeDate(s) ==
    IF DateSplits(s) = {} THEN [raised |-> TRUE, value |-> NoDate]
    ELSE LET sp == CHOOSE x \in DateSplits(s) : TRUE
             y == Num(SubSeq(s, 1, 4))
             m == Num(SubSeq(s, 6, 5 + sp[1]))
             d == Num(DayText(SubSeq(s, 7 + sp[1], 6 + sp[1] + sp[2])))
         IN  IF y < 1 \/ d > DaysIn(y, m) THEN [raised |-> TRUE, value |-> NoDate]
             ELSE [raised |-> FALSE, value |-> <<y, m, d>>]

Prefix == <<"b", "t", "c", "u", "s", "d", "-">>
Csv == <<".", "c", "s", "v">>

\* is_valid_filename: the first seven characters and the date at [7:17].
is_valid_filename(filename) ==
    IF Slice(filename, 0, 7) # Prefix THEN FALSE
    ELSE ~StrptimeDate(Slice(filename, 7, 17)).raised

\* extract_date_from_filename: the date at [7:17], or ValueError (raised).
extract_date_from_filename(filename) == StrptimeDate(Slice(filename, 7, 17))

\* The name of a directory entry.
DateText(m1, m2, d1, d2) == <<"2", "0", "2", "3", "-", m1, m2, "-", d1, d2>>
NameOf(e) ==
    IF e \in Files THEN Prefix \o DateText("1", "0", "0", Digits[e + 1]) \o Csv
    ELSE IF e = WrongPrefix
         THEN <<"e", "t", "h", "u", "s", "d", "-">> \o DateText("1", "0", "0", "1") \o Csv
    ELSE IF e = CopyCsv
         THEN Prefix \o DateText("0", "9", "3", "0") \o <<"-", "c", "o", "p", "y">> \o Csv
    ELSE Prefix \o DateText("0", "9", "2", "9") \o <<".", "t", "x", "t">>

\* Dates in calendar order.
DateLE(a, b) ==
    \/ a[1] < b[1]
    \/ a[1] = b[1] /\ a[2] < b[2]
    \/ a[1] = b[1] /\ a[2] = b[2] /\ a[3] <= b[3]

\* ----------------------------------------------------------- file contents
\* A CSV file: whether it can be read, whether it has a Time column, and its
\* records. A record's time is 1 or 2 (a parseable HH:MM:SS time of day) or
\* BadTime (a string strptime rejects); vals is the set of the seven price and
\* volume columns in which the record has a value.
BadTime == 0
ValueColumns == {"Open", "High", "Low", "Close", "Volume_(BTC)",
                 "Volume_(Currency)", "Weighted_Price"}
Row(t, v) == [time |-> t, vals |-> v]
\* A record with all seven values (e false) or with none of them (e true).
Rec(t, e) == Row(t, IF e THEN {} ELSE ValueColumns)
GoodFile == [readable |-> TRUE, hasTime |-> TRUE,
             rows |-> <<Rec(1, FALSE), Rec(BadTime, TRUE)>>]
UnreadableFile == [readable |-> FALSE, hasTime |-> TRUE, rows |-> <<Rec(1, FALSE)>>]
NoTimeFile == [readable |-> TRUE, hasTime |-> FALSE, rows |-> <<Rec(1, FALSE)>>]
BadTimeFile == [readable |-> TRUE, hasTime |-> TRUE,
                rows |-> <<Rec(1, FALSE), Rec(BadTime, FALSE)>>]
AllContents == {GoodFile, UnreadableFile, NoTimeFile, BadTimeFile}
\* The contents the files of the directory are drawn from.
Contents == {GoodFile, BadTimeFile}

\* The date process_file_data and the scan's sort read from the name of entry f.
FileDate == [e \in Entries |-> extract_date_from_filename(NameOf(e))]

\* A dropna with how = 'any': a record with one empty value is dropped.
DropEmptyAny(rows) == SelectSeq(rows, LAMBDA r : r.vals = ValueColumns)

\* df.dropna(subset = the seven value columns, how = 'all')
DropEmpty(rows) == SelectSeq(rows, LAMBDA r : r.vals # {})

\* datetime.combine(file_date, strptime(Time)) of every retained record.
DateTimes(f, rows) == [i \in 1..Len(rows) |-> <<FileDate[f].value, rows[i].time>>]

SeqToBag(s) == [x \in {s[i] : i \in 1..Len(s)} |-> Cardinality({i \in 1..Len(s) : s[i] = x})]

\* The table's PRIMARY KEY on date_time: a multi-row INSERT is rejected as a
\* whole when one of its keys is already in the table or occurs twice in it.
KeyConflict(table, recs) ==
    \E i \in 1..Len(recs) :
        \/ BagIn(recs[i], table)
        \/ \E j \in 1..Len(recs) : j # i /\ recs[j] = recs[i]

\* df_records.to_sql(..., if_exists='append', method='multi') on a connection
\* of the engine: the result is the table after the call and whether it raised.
ToSql(table, recs, up) ==
    IF ~up THEN [ok |-> FALSE, table |-> table]
    ELSE IF Len(recs) = 0 THEN [ok |-> TRUE, table |-> table]
    ELSE IF KeyConflict(table, recs) THEN [ok |-> FALSE, table |-> table]
    ELSE [ok |-> TRUE, table |-> table (+) SeqToBag(recs)]

\* A check for the Time column that looks at the retained records only.
MissingTimeOnRetained(c) == ~c.hasTime /\ DropEmpty(c.rows) # <<>>

\* line 156: 'Time' not in df.columns
MissingTime(c) == ~c.hasTime

\* A time parser that lets every string through.
TimeFailsNever(kept) == FALSE

\* line 163: strptime(x, "%H:%M:%S") raises on a retained record.
TimeFails(kept) == \E i \in 1..Len(kept) : kept[i].time = BadTime

\* lines 165-176: the records handed to to_sql.
df_records(f, kept) ==
    [i \in 1..Len(kept) |-> [date_time |-> DateTimes(f, kept)[i], vals |-> kept[i].vals]]

\* process_file_data, lines 152-176: read, check, filter and transform. The
\* result is the error raised ("none" if none) and the records built.
Transform(f, c) ==
    IF ~c.readable THEN [error |-> "read", records |-> <<>>]
    ELSE IF FileDate[f].raised THEN [error |-> "name", records |-> <<>>]
    ELSE IF MissingTime(c) THEN [error |-> "missing_time", records |-> <<>>]
    ELSE IF TimeFails(DropEmpty(c.rows)) THEN [error |-> "time_format", records |-> <<>>]
    ELSE [error |-> "none", records |-> df_records(f, DropEmpty(c.rows))]

\* process_file_data: every failure is raised as a RuntimeError (ok = FALSE).
process_file_data(f, c, table, up) ==
    IF Transform(f, c).error # "none" THEN [ok |-> FALSE, table |-> table]
    ELSE ToSql(table, DateTimes(f, DropEmpty(c.rows)), up)

\* An is_processed without its handler: the ConnectionError leaves it.
is_processedUncaught(set, path, up) ==
    [raised |-> ~up, value |-> IF up THEN path \in set ELSE FALSE]

\* An is_processed that never finds a path.
is_processedNever(set, path, up) == [raised |-> FALSE, value |-> FALSE]

\* ------------------------------------------------------------------ ledger
\* is_processed: redis_conn.sismember('processed_files', path) inside the
\* handler of redis.exceptions.ConnectionError. up says whether the server
\* answers; the result is the value returned and whether the call raised.
is_processed(set, path, up) ==
    [raised |-> FALSE, value |-> IF up THEN path \in set ELSE FALSE]

\* A mark_file_as_processed that takes a path it finds in the set out of it.
mark_file_as_processedToggle(set, path, up) ==
    [raised |-> FALSE,
     set |-> IF ~up THEN set ELSE IF path \in set THEN set \ {path} ELSE set \cup {path}]

\* A mark_file_as_processed that adds nothing to the set.
mark_file_as_processedLost(set, path, up) == [raised |-> FALSE, set |-> set]

\* mark_file_as_processed: redis_conn.sadd('processed_files', path) inside the
\* same handler; the result is the set after the call and whether it raised.
mark_file_as_processed(set, path, up) ==
    [raised |-> FALSE, set |-> IF up THEN set \cup {path} ELSE set]

\* ---------------------------------------------------------------- the scan
\* The filter of line 105 on a directory entry.
Candidate(e) == EndsWith(NameOf(e), Csv) /\ is_valid_filename(NameOf(e))

\* sorted(files, key=extract_date_from_filename)
\* The entries that filter retains.
Candidates == {e \in Entries : Candidate(e)}

RECURSIVE SortByDate(_)
SortByDate(S) ==
    IF S = {} THEN <<>>
    ELSE LET m == CHOOSE x \in S :
                    \A y \in S : DateLE(FileDate[x].value, FileDate[y].value)
         IN  <<m>> \o SortByDate(S \ {m})

\* ------------------------------------------------------------------- state
VARIABLES
    flag,       \* ENABLE_MULTITHREADING of the process environment
    processed,  \* the Redis set processed_files
    table,      \* the bag of date_time keys of the table's rows
    dir,        \* the files of DATA_DIRECTORY
    content,    \* the content of every file
    pc,         \* where the main thread is
    conn,       \* the threads whose thread_local has the attribute redis_conn
    files,      \* process_existing_files: the sorted candidates not yet visited
    scanMT,     \* process_existing_files: the mode read at the head of the scan
    units,      \* the process_file calls in submission order: the futures of a
                \* scan until it returns, the unfinished calls of the watcher
    executor,   \* NewFileHandler.executor is a pool (TRUE) or None (FALSE)
    events,     \* the observer's queue of creation events
    nEvents,    \* creation events delivered to the observer in this run
    call        \* the last direct call of a helper: its arguments and its result

vars == <<flag, processed, table, dir, content, pc, conn, files,
          scanMT, units, executor, events, nEvents, call>>

NoCall == [op |-> "none"]

\* A unit is one call of process_file: its path, its state, the thread it is
\* on and who submitted it ("scan" or "watch").
Unit(f, s, t, by) == [path |-> f, st |-> s, th |-> t, by |-> by]
Terminal(u) == u.st \in {"succeeded", "failed"}
InFlight(u) == u.st \in {"queued", "running", "written"}
Running(u) == u.st \in {"running", "written"}
UnitIds == 1..Len(units)
Busy(t) == \E i \in UnitIds : units[i].th = t /\ ~Terminal(units[i])
AllTerminal == \A i \in UnitIds : Terminal(units[i])
Unfinished(q) == SelectSeq(q, LAMBDA u : ~Terminal(u))

Init ==
    /\ flag \in BOOLEAN
    /\ processed = {}
    /\ table = EmptyBag
    /\ dir \in SUBSET Files
    /\ content \in {c \in [Entries -> Contents] : \A e \in OddEntries : c[e] = GoodFile}
    /\ pc = "init_db"
    /\ conn = {}
    /\ files = <<>>
    /\ scanMT = FALSE
    /\ units = <<>>
    /\ executor = FALSE
    /\ events = <<>>
    /\ nEvents = 0
    /\ call = NoCall

\* ------------------------------------------------------------- environment
\* The Redis server and the database are outside the program: every call to
\* one of them takes as input whether the server answers it (up).

Watching == pc = "watch"

\* A file is created in the directory; a running observer queues the event.
CreateFile(f) ==
    /\ pc \notin {"crashed", "exited"}
    /\ IF Watching
       THEN /\ nEvents < MaxEvents
            /\ events' = Append(events, [path |-> f, is_directory |-> FALSE])
            /\ nEvents' = nEvents + 1
       ELSE /\ f \notin dir
            /\ UNCHANGED <<events, nEvents>>
    /\ dir' = dir \cup {f}
    /\ UNCHANGED <<flag, processed, table, content, pc, conn, files,
                   scanMT, units, executor, call>>

\* A subdirectory is created in the directory while the observer runs.
CreateDirectory ==
    /\ Watching
    /\ nEvents < MaxEvents
    /\ events' = Append(events, [path |-> 0, is_directory |-> TRUE])
    /\ nEvents' = nEvents + 1
    /\ UNCHANGED <<flag, processed, table, dir, content, pc, conn,
                   files, scanMT, units, executor, call>>

\* ------------------------------------------------------------- main thread
\* initialize_database: a failure is fatal to the process.
InitializeDatabase(up) ==
    /\ pc = "init_db"
    /\ pc' = IF up THEN "list" ELSE "crashed"
    /\ UNCHANGED <<flag, processed, table, dir, content, conn, files,
                   scanMT, units, executor, events, nEvents, call>>

\* process_existing_files, lines 105-108: list, filter, sort, read the mode.
ListFiles ==
    /\ pc = "list"
    /\ files' = SortByDate(dir \cap Candidates)
    /\ scanMT' = flag
    /\ pc' = "scan"
    /\ UNCHANGED <<flag, processed, table, dir, content, conn,
                   units, executor, events, nEvents, call>>

\* A connection kept in a module global: once set, every thread has it.
ConnectShared(t) == Threads

\* get_redis_connection on a thread without a connection: the attribute is
\* set, then the ping decides whether the call raises.
Connect(t) == conn \cup {t}

\* get_redis_connection on thread t: the threads that have the attribute after
\* the call, whether the call constructed a connection, and whether it raised.
get_redis_connection(t, up) ==
    IF t \in conn THEN [conn |-> conn, created |-> FALSE, raised |-> FALSE]
    ELSE [conn |-> Connect(t), created |-> TRUE, raised |-> ~up]

\* An exception leaves process_existing_files: a pooled scan leaves the pool's
\* with-block first, and then the process ends.
ScanRaise == IF scanMT THEN "unwind" ELSE "crashed"

\* The scan's get_redis_connection on the main thread's first use.
ScanConnect(up) ==
    /\ pc = "scan"
    /\ files # <<>>
    /\ ~Busy(MainThread)
    /\ MainThread \notin conn
    /\ conn' = Connect(MainThread)
    /\ pc' = IF up THEN "scan" ELSE ScanRaise
    /\ UNCHANGED <<flag, processed, table, dir, content, files,
                   scanMT, units, executor, events, nEvents, call>>

\* A submitter that hands every path to a pool, whatever the mode.
SubmitToPool(f, pooled, t, by) == Append(units, Unit(f, "queued", NoThread, by))

\* What a submitter does with a path that is not processed: hand it to its
\* pool (pooled) or call process_file on its own thread (sequential).
Submit(f, pooled, t, by) ==
    Append(units, IF pooled THEN Unit(f, "queued", NoThread, by)
                  ELSE Unit(f, "running", t, by))

\* One iteration of the scan's loop with a connection at hand.
ScanCheck(up) ==
    /\ pc = "scan"
    /\ files # <<>>
    /\ ~Busy(MainThread)
    /\ MainThread \in conn
    /\ LET r == is_processed(processed, Head(files), up)
       IN  /\ pc' = IF r.raised THEN ScanRaise ELSE "scan"
           /\ units' = IF r.raised \/ r.value THEN units
                       ELSE Submit(Head(files), scanMT, MainThread, "scan")
    /\ files' = Tail(files)
    /\ UNCHANGED <<flag, processed, table, dir, content, conn,
                   scanMT, executor, events, nEvents, call>>

\* A pooled scan that does not wait for its pool.
PoolNotAwaited == TRUE

\* What a pooled scan waits for before control leaves its with-block:
\* as_completed over the futures and shutdown(wait=True).
PoolDrained == AllTerminal

\* process_existing_files returns: the futures are dropped and the pool's
\* threads are gone.
ScanReturn ==
    /\ pc = "scan"
    /\ files = <<>>
    /\ ~Busy(MainThread)
    /\ scanMT => PoolDrained
    /\ pc' = "observe"
    /\ units' = Unfinished(units)
    /\ conn' = conn \ {w \in ScanWorkers : ~Busy(w)}
    /\ UNCHANGED <<flag, processed, table, dir, content, files,
                   scanMT, executor, events, nEvents, call>>

\* The exception of a pooled scan leaves the with-block and then the process.
ScanUnwind ==
    /\ pc = "unwind"
    /\ PoolDrained
    /\ pc' = "crashed"
    /\ units' = Unfinished(units)
    /\ conn' = conn \ {w \in ScanWorkers : ~Busy(w)}
    /\ UNCHANGED <<flag, processed, table, dir, content, files,
                   scanMT, executor, events, nEvents, call>>

\* --------------------------------------------------------------- the units
PoolOf(w) == IF w \in ScanWorkers THEN "scan" ELSE "watch"

\* A pool runs at most MAX_THREADS worker threads, each on one unit at a time.
MayTake(w) ==
    /\ w \in Workers
    /\ ~Busy(w)

Queued(by) == {i \in UnitIds : units[i].st = "queued" /\ units[i].by = by}
FirstQueued(by) == CHOOSE i \in Queued(by) : \A j \in Queued(by) : i <= j

\* An idle worker of a pool takes the pool's oldest queued unit.
WorkerTake(w) ==
    /\ MayTake(w)
    /\ Queued(PoolOf(w)) # {}
    /\ units' = [units EXCEPT ![FirstQueued(PoolOf(w))].st = "running",
                              ![FirstQueued(PoolOf(w))].th = w]
    /\ UNCHANGED <<flag, processed, table, dir, content, pc, conn,
                   files, scanMT, executor, events, nEvents, call>>

Remove(q, i) == SubSeq(q, 1, i - 1) \o SubSeq(q, i + 1, Len(q))

\* Unit i moves to state s. A scan holds the futures of its units until it
\* returns; nothing holds a unit of the watcher once it has ended.
SetSt(i, s) ==
    IF s \in {"succeeded", "failed"}
    THEN IF pc \in {"scan", "unwind"}
         THEN [units EXCEPT ![i].st = s, ![i].th = NoThread]
         ELSE Remove(units, i)
    ELSE [units EXCEPT ![i].st = s]

\* A process_file that goes on to the ledger whether or not process_file_data
\* raised.
AfterDataMarkAnyway(ok) == "written"

\* process_file, lines 141-147: the state of the unit after process_file_data
\* returned (ok) or raised: go on to the ledger, or log the error and end.
AfterData(ok) == IF ok THEN "written" ELSE "failed"

\* A process_file without its handler: the unit's exception leaves it.
EscapesUncaught(failed) == failed

\* process_file, lines 146-147: whether an exception of the unit leaves
\* process_file. The handler catches every Exception.
Escapes(failed) == FALSE

\* Where the main thread is after unit i ended: an exception that left
\* process_file on the main thread would leave the sequential scan; one on a
\* worker stays in its future, one on the observer thread is caught by
\* on_created.
PcAfter(i, s) ==
    IF Escapes(s = "failed") /\ units[i].th = MainThread THEN "crashed" ELSE pc

\* process_file, line 142: read, transform and load the file.
UnitProcessData(i, up) ==
    /\ i \in UnitIds
    /\ units[i].st = "running"
    /\ LET r == process_file_data(units[i].path, content[units[i].path], table, up)
       IN  /\ table' = r.table
           /\ units' = SetSt(i, AfterData(r.ok))
           /\ pc' = PcAfter(i, AfterData(r.ok))
    /\ UNCHANGED <<flag, processed, dir, content, conn, files,
                   scanMT, executor, events, nEvents, call>>

\* process_file, line 143, on a thread without a connection: a failed ping
\* raises into process_file's handler and the unit ends unmarked.
UnitConnect(i, up) ==
    /\ i \in UnitIds
    /\ units[i].st = "written"
    /\ units[i].th \notin conn
    /\ conn' = Connect(units[i].th)
    /\ units' = SetSt(i, IF up THEN "written" ELSE "failed")
    /\ pc' = PcAfter(i, IF up THEN "written" ELSE "failed")
    /\ UNCHANGED <<flag, processed, table, dir, content, files,
                   scanMT, executor, events, nEvents, call>>

\* process_file, line 144: mark the path and finish.
UnitMark(i, up) ==
    /\ i \in UnitIds
    /\ units[i].st = "written"
    /\ units[i].th \in conn
    /\ LET r == mark_file_as_processed(processed, units[i].path, up)
       IN  /\ processed' = r.set
           /\ units' = SetSt(i, IF r.raised THEN "failed" ELSE "succeeded")
           /\ pc' = PcAfter(i, IF r.raised THEN "failed" ELSE "succeeded")
    /\ UNCHANGED <<flag, table, dir, content, conn, files,
                   scanMT, executor, events, nEvents, call>>

\* ------------------------------------------------------------- the watcher
\* start_observer, lines 186-190: the handler reads the mode once for its
\* pool, then the observer thread starts.
StartObserver ==
    /\ pc = "observe"
    /\ executor' = flag
    /\ pc' = "watch"
    /\ UNCHANGED <<flag, processed, table, dir, content, conn, files,
                   scanMT, units, events, nEvents, call>>

\* A dispatcher that hands over the next event while a handler still runs.
MayDispatchConcurrently ==
    /\ Watching
    /\ events # <<>>

\* The observer's thread dispatches one event at a time.
MayDispatch ==
    /\ Watching
    /\ events # <<>>
    /\ ~Busy(ObserverThread)

\* on_created for a directory: ignored.
OnCreatedDirectory ==
    /\ MayDispatch
    /\ Head(events).is_directory
    /\ events' = Tail(events)
    /\ UNCHANGED <<flag, processed, table, dir, content, pc, conn,
                   files, scanMT, units, executor, nEvents, call>>

\* on_created, line 218, on the observer thread's first use: a failed ping
\* raises into on_created's handler, which logs it and drops the event.
OnCreatedConnect(up) ==
    /\ MayDispatch
    /\ ~Head(events).is_directory
    /\ ObserverThread \notin conn
    /\ conn' = Connect(ObserverThread)
    /\ events' = IF up THEN events ELSE Tail(events)
    /\ UNCHANGED <<flag, processed, table, dir, content, pc, files,
                   scanMT, units, executor, nEvents, call>>

\* on_created, lines 219-226, with a connection at hand. An exception of
\* is_processed, or of self.executor.submit when the mode is on and the
\* handler has no pool, is caught by the handler and the event is dropped.
OnCreatedCheck(up) ==
    /\ MayDispatch
    /\ ~Head(events).is_directory
    /\ ObserverThread \in conn
    /\ LET r == is_processed(processed, Head(events).path, up)
       IN  units' = IF r.raised \/ r.value \/ (flag /\ ~executor) THEN units
                    ELSE Submit(Head(events).path, flag, ObserverThread, "watch")
    /\ events' = Tail(events)
    /\ UNCHANGED <<flag, processed, table, dir, content, pc, conn,
                   files, scanMT, executor, nEvents, call>>

\* start_observer, lines 195-196: the interrupt ends the main thread's sleep
\* loop and observer.stop() is called; no further event is dispatched.
Interrupt ==
    /\ pc = "watch"
    /\ pc' = "joining"
    /\ events' = <<>>
    /\ UNCHANGED <<flag, processed, table, dir, content, conn, files,
                   scanMT, units, executor, nEvents, call>>

\* What start_observer waits for before it returns: observer.join(), the end
\* of the observer thread and so of the handler it is running.
ObserverJoined == ~Busy(ObserverThread)

\* start_observer, line 198: observer.join() returns and so does start_observer.
ObserverReturn ==
    /\ pc = "joining"
    /\ ObserverJoined
    /\ pc' = "returned"
    /\ UNCHANGED <<flag, processed, table, dir, content, conn, files,
                   scanMT, units, executor, events, nEvents, call>>

\* The interpreter ends once the pool's threads have run what was submitted.
ProcessExit ==
    /\ pc = "returned"
    /\ AllTerminal
    /\ pc' = "exited"
    /\ UNCHANGED <<flag, processed, table, dir, content, conn, files,
                   scanMT, units, executor, events, nEvents, call>>

\* The program is started again; the ledger, the table and the directory are
\* what the last run left.
Restart ==
    /\ pc \in {"crashed", "exited"}
    /\ flag' \in BOOLEAN
    /\ pc' = "init_db"
    /\ conn' = {}
    /\ files' = <<>>
    /\ scanMT' = FALSE
    /\ units' = <<>>
    /\ executor' = FALSE
    /\ events' = <<>>
    /\ nEvents' = 0
    /\ UNCHANGED <<processed, table, dir, content, call>>

Next ==
    \/ \E f \in Files : CreateFile(f)
    \/ CreateDirectory
    \/ \E up \in BOOLEAN : InitializeDatabase(up)
    \/ ListFiles
    \/ \E up \in BOOLEAN : ScanConnect(up)
    \/ \E up \in BOOLEAN : ScanCheck(up)
    \/ ScanReturn
    \/ ScanUnwind
    \/ \E w \in Workers : WorkerTake(w)
    \/ \E i \in UnitIds, up \in BOOLEAN : UnitProcessData(i, up)
    \/ \E i \in UnitIds, up \in BOOLEAN : UnitConnect(i, up)
    \/ \E i \in UnitIds, up \in BOOLEAN : UnitMark(i, up)
    \/ StartObserver
    \/ OnCreatedDirectory
    \/ \E up \in BOOLEAN : OnCreatedConnect(up)
    \/ \E up \in BOOLEAN : OnCreatedCheck(up)
    \/ Interrupt
    \/ ObserverReturn
    \/ ProcessExit
    \/ Restart

Spec == Init /\ [][Next]_vars

\* ------------------------------------------------------------------ claims
\* The date_time keys process_file_data loads for file f.
RowsOf(f) == DateTimes(f, DropEmpty(content[f].rows))
Loaded(f, t) == \A k \in 1..Len(RowsOf(f)) : BagIn(RowsOf(f)[k], t)
UnitsOf(f) == {i \in UnitIds : units[i].path = f}
Submitted(f, by) ==
    /\ Len(units') = Len(units) + 1
    /\ SubSeq(units', 1, Len(units)) = units
    /\ units'[Len(units')].path = f
    /\ units'[Len(units')].by = by
    /\ InFlight(units'[Len(units')])

\* C1: a path enters the processed set only in a step of a process_file unit
\* for that path whose batch write has completed (its rows are in the table);
\* a unit whose process_file_data failed is never one that marks; and a scan
\* that visits a path that is not in the set submits it again.
C1_Step ==
    /\ \A f \in Files : (f \in processed' /\ f \notin processed) =>
          \E i \in UnitsOf(f) : units[i].st = "written" /\ Loaded(f, table)
    /\ \A i \in 1..Len(units') :
          units'[i].st = "written" => Loaded(units'[i].path, table')
    /\ \A f \in processed' : Loaded(f, table')
    /\ \A i \in UnitIds :
          (units[i].st = "failed" /\ pc' \in {"scan", "unwind"}) => units'[i] = units[i]
    /\ \A up \in BOOLEAN :
          (ScanCheck(up) /\ Head(files) \notin processed) => Submitted(Head(files), "scan")
C1_MarkOnlyAfterWrite == [][C1_Step]_vars

\* A scan holds a failed unit whose path is unmarked beside a marked path.
C1_Witness ==
    /\ processed # {}
    /\ \E i \in UnitIds : units[i].st = "failed" /\ units[i].path \notin processed

\* Some unit takes a step of process_file.
UnitStep(i) ==
    \E up \in BOOLEAN : UnitProcessData(i, up) \/ UnitConnect(i, up) \/ UnitMark(i, up)
OthersUnchanged(i) ==
    IF Len(units') = Len(units)
    THEN \A j \in UnitIds \ {i} : units'[j] = units[j]
    ELSE units' = Remove(units, i)

\* C2: a step of a process_file unit, failing or not, leaves the main thread,
\* the scan's remaining candidates, the event queue and every other unit as
\* they are, in both modes; and the scan returns only with every candidate
\* visited and every unit it submitted ended.
C2_Step ==
    /\ \A i \in UnitIds : UnitStep(i) =>
          /\ pc' = pc
          /\ files' = files
          /\ events' = events
          /\ OthersUnchanged(i)
    /\ (pc = "scan" /\ pc' = "observe") => (files = <<>> /\ AllTerminal)
C2_FailureIsolated == [][C2_Step]_vars

\* A scan in which a unit succeeded after an earlier unit had failed.
C2_Witness ==
    /\ pc = "scan"
    /\ \E i, j \in UnitIds : i < j /\ units[i].st = "failed" /\ units[j].st = "succeeded"

\* C3 (as claimed): a ledger call of the scan or of on_created that finds the
\* ledger unreachable, the first connection of the thread included, neither
\* ends the scan or the process nor drops the candidate: the scan goes on and
\* the file is submitted.
C3_Step ==
    /\ ScanConnect(FALSE) => pc' = "scan"
    /\ ScanCheck(FALSE) => (pc' = "scan" /\ Submitted(Head(files), "scan"))
    /\ OnCreatedConnect(FALSE) => (pc' = pc /\ events' = events)
    /\ OnCreatedCheck(FALSE) => (pc' = pc /\ Submitted(Head(events).path, "watch"))
C3_LedgerDownNeverFatal == [][C3_Step]_vars

\* C4: with the ledger unreachable is_processed returns false and does not
\* raise, mark_file_as_processed returns without raising, and the callers go
\* on: the check submits the path, the unit ends succeeded, and the processed
\* set is as it was.
C4_Step ==
    /\ \A f \in Files :
          /\ is_processed(processed, f, FALSE) = [raised |-> FALSE, value |-> FALSE]
          /\ mark_file_as_processed(processed, f, FALSE) = [raised |-> FALSE, set |-> processed]
    /\ ScanCheck(FALSE) =>
          (processed' = processed /\ pc' = pc /\ Submitted(Head(files), "scan"))
    /\ OnCreatedCheck(FALSE) =>
          (processed' = processed /\ pc' = pc /\ Submitted(Head(events).path, "watch"))
    /\ \A i \in UnitIds : UnitMark(i, FALSE) =>
          /\ processed' = processed
          /\ pc' = pc
          /\ pc \in {"scan", "unwind"} => units'[i].st = "succeeded"
C4_FailOpen == [][C4_Step]_vars

\* A scan holds a unit that ended succeeded while its path is unmarked (the
\* mark found the ledger down) and a unit submitted for a marked path (the
\* check found the ledger down).
C4_Witness ==
    /\ pc = "scan"
    /\ \E i \in UnitIds : units[i].st = "succeeded" /\ units[i].path \notin processed
    /\ \E i \in UnitIds : units[i].st \in {"queued", "running"} /\ units[i].path \in processed

\* C5: a check of a marked path that reaches the ledger submits nothing and
\* writes nothing, in the scan and in on_created; a unit is submitted for a
\* marked path only by a check that found the ledger unreachable.
C5_Step ==
    /\ (ScanCheck(TRUE) /\ Head(files) \in processed) =>
          (units' = units /\ table' = table)
    /\ (OnCreatedCheck(TRUE) /\ Head(events).path \in processed) =>
          (units' = units /\ table' = table)
    /\ \A f \in processed : \A by \in {"scan", "watch"} :
          Submitted(f, by) => (ScanCheck(FALSE) \/ OnCreatedCheck(FALSE))
C5_MarkedNeverResubmitted == [][C5_Step]_vars

\* A scan over a directory of marked files has visited them all and has
\* submitted nothing.
C5_Witness ==
    /\ pc = "scan"
    /\ files = <<>>
    /\ units = <<>>
    /\ dir = Files
    /\ processed = Files

\* ------------------------------------------------- the pooled scan, healthy
\* A pooled batch scan over a directory of valid files, with the ledger and
\* the database answering every call. Earlier runs may have loaded and marked
\* some of the files; the others are not yet processed. Every thread that can
\* take a step eventually takes one.
RowSet(S) == UNION {{RowsOf(f)[k] : k \in 1..Len(RowsOf(f))} : f \in S}

InitPooled ==
    /\ flag = TRUE
    /\ content = [f \in Entries |-> GoodFile]
    /\ dir \in SUBSET Files
    /\ processed \in SUBSET dir
    /\ table = [x \in RowSet(processed) |-> 1]
    /\ pc = "init_db"
    /\ conn = {}
    /\ files = <<>>
    /\ scanMT = FALSE
    /\ units = <<>>
    /\ executor = FALSE
    /\ events = <<>>
    /\ nEvents = 0
    /\ call = NoCall

NextPooled ==
    \/ InitializeDatabase(TRUE)
    \/ ListFiles
    \/ ScanConnect(TRUE)
    \/ ScanCheck(TRUE)
    \/ \E w \in ScanWorkers : WorkerTake(w)
    \/ \E i \in UnitIds : UnitProcessData(i, TRUE)
    \/ \E i \in UnitIds : UnitConnect(i, TRUE)
    \/ \E i \in UnitIds : UnitMark(i, TRUE)
    \/ ScanReturn

SpecPooled == InitPooled /\ [][NextPooled]_vars /\ WF_vars(NextPooled)

\* The table holds each row of the files of S once and nothing else.
HoldsExactly(S) ==
    /\ \A f \in S : \A k \in 1..Len(RowsOf(f)) : CopiesIn(RowsOf(f)[k], table) = 1
    /\ BagToSet(table) = RowSet(S)

\* C6: under every interleaving of the workers the pooled scan returns, and
\* when it has returned every file of the directory is marked and the table
\* holds every row of those files exactly once.
C6_PooledScanCompletes ==
    <>(pc = "observe" /\ dir \subseteq processed /\ HoldsExactly(dir))

\* A scan over a directory of all the files whose last submitted unit has
\* ended while the first is still running.
C6_Witness ==
    /\ pc = "scan"
    /\ dir = Files
    /\ Len(units) = NumFiles
    /\ units[1].st = "running"
    /\ units[Len(units)].st = "succeeded"

\* ------------------------------------------------------ claims, continued
\* C7 (as claimed): a unit that processes a valid file whose rows are all in
\* the table already, the database answering, is not aborted by the duplicate
\* keys: its write succeeds, it goes on to mark the file, and the table holds
\* each of the file's rows once.
C7_Step ==
    \A i \in UnitIds :
        ( /\ UnitProcessData(i, TRUE)
          /\ content[units[i].path] = GoodFile
          /\ Loaded(units[i].path, table) )
        => /\ Len(units') = Len(units)
           /\ units'[i].st = "written"
           /\ \A k \in 1..Len(RowsOf(units[i].path)) :
                  CopiesIn(RowsOf(units[i].path)[k], table') = 1
C7_ReprocessingSucceeds == [][C7_Step]_vars

\* C8: once control has left the scan no unit the scan submitted is
\* unfinished, in pooled as in sequential mode, and the watcher starts only
\* from a scan that has returned.
C8_ScanDrainsBeforeWatch ==
    /\ pc \notin {"init_db", "list", "scan", "unwind"} =>
          \A i \in UnitIds : units[i].by # "scan"
    /\ pc \in {"init_db", "list", "scan", "unwind", "observe", "crashed"} =>
          /\ events = <<>>
          /\ \A i \in UnitIds : units[i].by # "watch"

\* The watcher runs after a pooled scan that used the ledger.
C8_Witness ==
    /\ pc = "watch"
    /\ scanMT
    /\ MainThread \in conn
    /\ processed # {}

\* C9 (as claimed): after the interrupt the watcher submits no unit, and
\* start_observer returns only when every unit the watcher submitted has ended.
C9_Step ==
    /\ pc \in {"joining", "returned", "exited"} =>
          \A f \in Files : ~Submitted(f, "watch")
    /\ (pc = "joining" /\ pc' = "returned") => AllTerminal
C9_WatcherDrainsBeforeReturn == [][C9_Step]_vars

\* C10: at most MAX_THREADS units run at the same time in pooled mode and at
\* most one in sequential mode, whoever submitted them.
NumRunning == Cardinality({i \in UnitIds : Running(units[i])})
Prefixes == {Prefix, <<"e", "t", "h", "u", "s", "d", "-">>, <<"b", "t", "c", "u", "s", "d">>, <<>>}
DateTexts ==
    {<<"2", "0", "2", "3", "-", "1", "0", "-", "0", "1">>, <<"2", "0", "2", "3", "-", "1", "0", "-", "3", "2">>,
     <<"2", "0", "2", "3", "/", "1", "0", "/", "0", "1">>, <<"2", "0", "2", "3", "1", "0", "0", "1">>,
     <<"2", "0", "2", "3", "-", "0", "2", "-", "2", "9">>, <<"2", "0", "2", "4", "-", "0", "2", "-", "2", "9">>,
     <<"2", "0", "2", "3", "-", "1", "-", "0", "1">>, <<"2", "0", "2", "3", "-", "1", "3", "-", "0", "1">>, <<>>}
Suffixes == {Csv, <<>>, <<".", "t", "x", "t">>, <<".", "c", "s", "v", ".", "b", "a", "k">>}
Names == {p \o d \o x : p \in Prefixes, d \in DateTexts, x \in Suffixes}

PipelineIdle ==
    /\ flag = FALSE
    /\ processed = {}
    /\ table = EmptyBag
    /\ dir = {}
    /\ pc = "init_db"
    /\ conn = {}
    /\ files = <<>>
    /\ scanMT = FALSE
    /\ units = <<>>
    /\ executor = FALSE
    /\ events = <<>>
    /\ nEvents = 0

InitCodec ==
    /\ PipelineIdle
    /\ content = [e \in Entries |-> GoodFile]
    /\ call \in {[op |-> "name", name |-> n] : n \in Names}

CallCodec ==
    /\ call.op = "name"
    /\ call' = [op |-> "codec", name |-> call.name,
                valid |-> is_valid_filename(call.name),
                date |-> extract_date_from_filename(call.name)]
    /\ UNCHANGED <<flag, processed, table, dir, content, pc, conn, files,
                   scanMT, units, executor, events, nEvents>>

NextCodec == CallCodec

SpecCodec == InitCodec /\ [][NextCodec]_vars

\* btcusd-YYYY-MM-DD.csv with a real calendar date, and nothing else.
IsoDate(d) ==
    /\ Len(d) = 10
    /\ AllDigits(SubSeq(d, 1, 4)) /\ d[5] = "-"
    /\ AllDigits(SubSeq(d, 6, 7)) /\ d[8] = "-"
    /\ AllDigits(SubSeq(d, 9, 10))
    /\ Num(SubSeq(d, 1, 4)) >= 1
    /\ Num(SubSeq(d, 6, 7)) \in 1..12
    /\ Num(SubSeq(d, 9, 10)) \in 1..DaysIn(Num(SubSeq(d, 1, 4)), Num(SubSeq(d, 6, 7)))
WellFormed(name) ==
    /\ Len(name) = 21
    /\ SubSeq(name, 1, 7) = Prefix
    /\ IsoDate(SubSeq(name, 8, 17))
    /\ SubSeq(name, 18, 21) = Csv
EmbeddedDate(name) ==
    <<Num(SubSeq(name, 8, 11)), Num(SubSeq(name, 13, 14)), Num(SubSeq(name, 16, 17))>>

\* C11 (as claimed): is_valid_filename is true exactly on the names that are
\* btcusd-, a real calendar date YYYY-MM-DD, .csv and nothing else;
\* extract_date_from_filename returns the embedded date on those names and
\* raises on every other string.
C11_CodecExact ==
    call.op = "codec" =>
        /\ call.valid = WellFormed(call.name)
        /\ IF WellFormed(call.name)
           THEN ~call.date.raised /\ call.date.value = EmbeddedDate(call.name)
           ELSE call.date.raised

\* ------------------------------------------- process_file_data, called alone
\* process_file_data applied to the first file, whose content is drawn from
\* the files of at most MaxRows records; the table is empty.
MaxRows == 2
DataRecords == {Row(t, v) : t \in {1, 2, BadTime}, v \in {{}, {"Open"}, ValueColumns}}
DataRows == UNION {[1..n -> DataRecords] : n \in 0..MaxRows}
DataContents ==
    {[readable |-> TRUE, hasTime |-> h, rows |-> r] : h \in BOOLEAN, r \in DataRows}
        \cup {UnreadableFile}

InitData ==
    /\ PipelineIdle
    /\ \E c \in DataContents : content = [e \in Entries |-> IF e = 1 THEN c ELSE GoodFile]
    /\ call = [op |-> "file"]

CallProcessFileData(up) ==
    /\ call.op = "file"
    /\ LET r == process_file_data(1, content[1], table, up)
       IN  /\ table' = r.table
           /\ call' = [op |-> "process_file_data", up |-> up, ok |-> r.ok,
                       error |-> Transform(1, content[1]).error,
                       records |-> Transform(1, content[1]).records]
    /\ UNCHANGED <<flag, processed, dir, content, pc, conn, files,
                   scanMT, units, executor, events, nEvents>>

NextData == \E up \in BOOLEAN : CallProcessFileData(up)

SpecData == InitData /\ [][NextData]_vars

\* The records of c that have a value, and the place of record i among them.
Populated(c) == {i \in 1..Len(c.rows) : c.rows[i].vals # {}}
PlaceOf(c, i) == Cardinality({j \in Populated(c) : j <= i})

\* C12: of a readable file with a Time column whose populated records carry a
\* time of day, every record with all seven values empty yields no row and no
\* error, whatever its time, and every record with at least one value yields
\* exactly one row, in order, whose timestamp is the date of the file name
\* with the record's time and whose empty values stay empty.
C12_RowFilter ==
    ( /\ call.op = "process_file_data"
      /\ content[1].readable /\ content[1].hasTime
      /\ \A i \in Populated(content[1]) : content[1].rows[i].time # BadTime )
    => /\ call.error = "none"
       /\ Len(call.records) = Cardinality(Populated(content[1]))
       /\ \A i \in Populated(content[1]) :
              call.records[PlaceOf(content[1], i)] =
                  [date_time |-> <<EmbeddedDate(NameOf(1)), content[1].rows[i].time>>,
                   vals |-> content[1].rows[i].vals]

\* A file with an empty record whose time does not parse and a record with one
\* value has been transformed into one row.
C12_Witness ==
    /\ call.op = "process_file_data"
    /\ content[1].hasTime
    /\ content[1].rows = <<Row(BadTime, {}), Row(2, {"Open"})>>
    /\ Len(call.records) = 1

\* C13: process_file_data on a readable file without the Time column fails
\* with the missing-column error, whatever its records hold (also when all of
\* them are empty), and the table is as it was.
C13_MissingTimeFails ==
    ( /\ call.op = "process_file_data"
      /\ content[1].readable /\ ~content[1].hasTime )
    => /\ ~call.ok
       /\ call.error = "missing_time"
       /\ table = EmptyBag

\* A file without the Time column whose only record is empty has failed.
C13_Witness ==
    /\ call.op = "process_file_data"
    /\ ~content[1].hasTime
    /\ content[1].rows = <<Row(1, {})>>
    /\ call.up
    /\ ~call.ok

\* ------------------------------------------------- the ledger, called alone
\* is_processed and mark_file_as_processed called in any order on the paths of
\* the directory's entries, the server answering or not; the set starts empty.
InitLedger ==
    /\ PipelineIdle
    /\ content = [e \in Entries |-> GoodFile]
    /\ call = NoCall

CallIsProcessed(path, up) ==
    /\ call' = [op |-> "is_processed", path |-> path, up |-> up,
                found |-> path \in processed,
                res |-> is_processed(processed, path, up)]
    /\ UNCHANGED <<flag, processed, table, dir, content, pc, conn, files,
                   scanMT, units, executor, events, nEvents>>

CallMark(path, up) ==
    /\ processed' = mark_file_as_processed(processed, path, up).set
    /\ call' = [op |-> "mark_file_as_processed", path |-> path, up |-> up,
                found |-> path \in processed,
                res |-> [raised |-> mark_file_as_processed(processed, path, up).raised]]
    /\ UNCHANGED <<flag, table, dir, content, pc, conn, files,
                   scanMT, units, executor, events, nEvents>>

NextLedger ==
    \/ \E path \in Entries, up \in BOOLEAN : CallIsProcessed(path, up)
    \/ \E path \in Entries, up \in BOOLEAN : CallMark(path, up)

SpecLedger == InitLedger /\ [][NextLedger]_vars

\* C14: starting from the empty set and with the ledger answering,
\* is_processed returns whether the path is in the set; a path enters the set
\* only by a mark of that path that reached the ledger; after such a mark the
\* path is in the set, a second mark leaving the set as it is; and no call
\* takes a path out of the set.
C14_Step ==
    /\ processed \subseteq processed'
    /\ \A path \in Entries :
          /\ (path \in processed' /\ path \notin processed) => CallMark(path, TRUE)
          /\ CallMark(path, TRUE) => processed' = processed \cup {path}
          /\ CallIsProcessed(path, TRUE) =>
                call'.res = [raised |-> FALSE, value |-> path \in processed]
C14_LedgerIdempotent == [][C14_Step]_vars

\* A path that was in the set has been marked again and is found.
C14_Witness ==
    /\ call.op = "mark_file_as_processed"
    /\ call.up
    /\ call.found
    /\ is_processed(processed, call.path, TRUE).value

\* ------------------------------------------------------- claims on the flow
\* C15 (as claimed): at no time are two process_file units for the same path
\* in flight (queued or running), whatever the scan, the creation events and
\* the workers do.
InFlightFor(f) == {i \in UnitIds : units[i].path = f /\ InFlight(units[i])}
C15_OneUnitPerPath == \A f \in Files : Cardinality(InFlightFor(f)) <= 1

\* A file with a retained record whose time of day does not parse.
HasBadRow(c) == \E i \in 1..Len(c.rows) : c.rows[i].vals # {} /\ c.rows[i].time = BadTime
RowsOfDate(d) == {x \in BagToSet(table) : x[1] = d}

\* C16: a file with a retained record whose time does not parse has no row in
\* the table, the rows before the bad one included, is not in the processed
\* set, and no unit for it has gone past process_file_data.
C16_BadRowFailsFile ==
    \A f \in Files : HasBadRow(content[f]) =>
        /\ RowsOfDate(EmbeddedDate(NameOf(f))) = {}
        /\ f \notin processed
        /\ \A i \in UnitIds : units[i].path = f => units[i].st \notin {"written", "succeeded"}

\* The scan holds the failed unit of a file whose second record is the bad one
\* and the succeeded unit of another file.
C16_Witness ==
    /\ pc = "scan"
    /\ \E i, j \in UnitIds :
          /\ units[i].st = "failed" /\ content[units[i].path] = BadTimeFile
          /\ units[j].st = "succeeded" /\ units[j].path \in processed

\* ------------------------------------- a directory with entries of any name
\* The scan and the watcher over a directory that may hold, and in which may
\* be created, the odd entries beside the validly named files; the ledger and
\* the database answer every call and every file is a good CSV file.
InitEntries ==
    /\ flag \in BOOLEAN
    /\ processed = {}
    /\ table = EmptyBag
    /\ dir \in SUBSET Entries
    /\ content = [e \in Entries |-> GoodFile]
    /\ pc = "init_db"
    /\ conn = {}
    /\ files = <<>>
    /\ scanMT = FALSE
    /\ units = <<>>
    /\ executor = FALSE
    /\ events = <<>>
    /\ nEvents = 0
    /\ call = NoCall

NextEntries ==
    \/ \E e \in Entries : CreateFile(e)
    \/ InitializeDatabase(TRUE)
    \/ ListFiles
    \/ ScanConnect(TRUE)
    \/ ScanCheck(TRUE)
    \/ ScanReturn
    \/ \E w \in Workers : WorkerTake(w)
    \/ \E i \in UnitIds : UnitProcessData(i, TRUE)
    \/ \E i \in UnitIds : UnitConnect(i, TRUE)
    \/ \E i \in UnitIds : UnitMark(i, TRUE)
    \/ StartObserver
    \/ OnCreatedConnect(TRUE)
    \/ OnCreatedCheck(TRUE)

SpecEntries == InitEntries /\ [][NextEntries]_vars

Before(a, b) == DateLE(a, b) /\ a # b

\* C17 (as claimed): the candidate sequence the scan builds holds exactly the
\* entries of the directory named btcusd-YYYY-MM-DD.csv, each once, in
\* ascending order of their dates; building it raises nothing; and the scan
\* submits its units in that order.
C17_Step ==
    /\ ListFiles =>
          /\ pc' = "scan"
          /\ {files'[k] : k \in 1..Len(files')} = {e \in dir : WellFormed(NameOf(e))}
          /\ \A j, k \in 1..Len(files') :
                j < k => Before(FileDate[files'[j]].value, FileDate[files'[k]].value)
    /\ \A e \in Entries : Submitted(e, "scan") =>
          /\ e = Head(files)
          /\ \A i \in UnitIds : units[i].by = "scan" =>
                Before(FileDate[units[i].path].value, FileDate[e].value)
C17_CandidatesExact == [][C17_Step]_vars

\* C20 (as claimed): a unit the watcher submitted for an entry that is not
\* named btcusd-YYYY-MM-DD.csv writes nothing to the table and adds nothing to
\* the processed set.
C20_Step ==
    \A i \in UnitIds :
        (units[i].by = "watch" /\ ~WellFormed(NameOf(units[i].path))) =>
            /\ UnitProcessData(i, TRUE) => table' = table
            /\ UnitMark(i, TRUE) => processed' = processed
C20_WatcherValidates == [][C20_Step]_vars

\* C18: in a sequential scan every unit but the last submitted has ended, and
\* the units were submitted in ascending order of their files' dates: a unit
\* starts, writes and marks only after the units of all earlier files ended.
C18_SequentialOrder ==
    (pc = "scan" /\ ~scanMT) =>
        \A i, j \in UnitIds : i < j =>
            /\ Terminal(units[i])
            /\ Before(FileDate[units[i].path].value, FileDate[units[j].path].value)

\* A sequential scan runs the unit of the second file, the first one's ended.
C18_Witness ==
    /\ pc = "scan"
    /\ ~scanMT
    /\ Len(units) = 2
    /\ Terminal(units[1])
    /\ units[2].st = "written"

\* ---------------------------------------------------- the hand-over, healthy
\* One run of the program over validly named good files, created at any time,
\* with the ledger and the database answering every call and no interrupt.
\* The program takes every step it can take; the environment need not act.
InitHandover ==
    /\ flag \in BOOLEAN
    /\ processed = {}
    /\ table = EmptyBag
    /\ dir \in SUBSET Files
    /\ content = [e \in Entries |-> GoodFile]
    /\ pc = "init_db"
    /\ conn = {}
    /\ files = <<>>
    /\ scanMT = FALSE
    /\ units = <<>>
    /\ executor = FALSE
    /\ events = <<>>
    /\ nEvents = 0
    /\ call = NoCall

ProgramStep ==
    \/ InitializeDatabase(TRUE)
    \/ ListFiles
    \/ ScanConnect(TRUE)
    \/ ScanCheck(TRUE)
    \/ ScanReturn
    \/ \E w \in Workers : WorkerTake(w)
    \/ \E i \in UnitIds : UnitProcessData(i, TRUE)
    \/ \E i \in UnitIds : UnitConnect(i, TRUE)
    \/ \E i \in UnitIds : UnitMark(i, TRUE)
    \/ StartObserver
    \/ OnCreatedConnect(TRUE)
    \/ OnCreatedCheck(TRUE)

NextHandover ==
    \/ \E f \in Files : CreateFile(f)
    \/ ProgramStep

SpecHandover == InitHandover /\ [][NextHandover]_vars /\ WF_vars(ProgramStep)

\* C19 (as claimed): every file that is in the directory at some moment of the
\* run, before, during or after the scan, is eventually submitted in that run:
\* a unit for it exists, or it has been marked.
C19_NoFileLost ==
    \A f \in Files : (f \in dir) ~> (UnitsOf(f) # {} \/ f \in processed)

\* ------------------------------------------ get_redis_connection, called alone
\* The threads of the program call get_redis_connection in any order, the
\* server answering the ping or not. The call record keeps the threads that
\* have called (users) and the number of connections constructed (made).
InitConn ==
    /\ PipelineIdle
    /\ content = [e \in Entries |-> GoodFile]
    /\ call = [op |-> "get_redis_connection", thread |-> NoThread, up |-> TRUE,
               created |-> FALSE, raised |-> FALSE, users |-> {}, made |-> 0]

CallGetRedisConnection(t, up) ==
    /\ conn' = get_redis_connection(t, up).conn
    /\ call' = [op |-> "get_redis_connection", thread |-> t, up |-> up,
                created |-> get_redis_connection(t, up).created,
                raised |-> get_redis_connection(t, up).raised,
                users |-> call.users \cup {t},
                made |-> call.made + (IF get_redis_connection(t, up).created THEN 1 ELSE 0)]
    /\ UNCHANGED <<flag, processed, table, dir, content, pc, files,
                   scanMT, units, executor, events, nEvents>>

NextConn == \E t \in Threads, up \in BOOLEAN : CallGetRedisConnection(t, up)

SpecConn == InitConn /\ [][NextConn]_vars

\* C21: a call of get_redis_connection constructs a connection exactly when
\* it is the first call of its thread, whether or not the ping succeeds, so
\* that k threads that have called have constructed k connections, one each.
C21_Step ==
    \A t \in Threads : \A up \in BOOLEAN :
        CallGetRedisConnection(t, up) =>
            /\ call'.created = (t \notin call.users)
            /\ call'.made = Cardinality(call'.users)
C21_ConnectionPerThread == [][C21_Step]_vars

\* Two threads have connected and one of them has called again.
C21_Witness ==
    /\ Cardinality(call.users) = 2
    /\ call.made = 2
    /\ ~call.created

\* ------------------------------------------ the flag changed during the run
\* The healthy run of the hand-over, in which moreover ENABLE_MULTITHREADING
\* is assigned in the process environment at any time; is_multithreading_enabled
\* reads it anew at the head of the scan, at the construction of the handler
\* and in every on_created.
SetFlag(b) ==
    /\ flag # b
    /\ flag' = b
    /\ UNCHANGED <<processed, table, dir, content, pc, conn, files,
                   scanMT, units, executor, events, nEvents, call>>

NextFlag ==
    \/ \E b \in BOOLEAN : SetFlag(b)
    \/ \E f \in Files : CreateFile(f)
    \/ ProgramStep

SpecFlag == InitHandover /\ [][NextFlag]_vars

\* C22 (as claimed): on_created for a file that is not in the processed set
\* submits a process_file unit, to the pool or on its own thread, whatever the
\* flag is when the event is handled and whatever it was when the handler was
\* constructed.
C22_Step ==
    (OnCreatedCheck(TRUE) /\ Head(events).path \notin processed) =>
        Submitted(Head(events).path, "watch")
C22_EventNeverDropped == [][C22_Step]_vars

====
